---- MODULE Spec2Model ----
(***************************************************************************)
(* A model of the CreativeStudioServer core: the durable job queue and its *)
(* worker loop (pkg/queue), the consumer start-up on the shared channel,   *)
(* the priority attached to a published message, and the render executor   *)
(* (FFmpegProcessor.RenderComposition / runWithProgress).                  *)
(*                                                                         *)
(* Each subsystem has its own specification over the one set of variables; *)
(* the variables of the other subsystems stay at their idle values.        *)
(***************************************************************************)
EXTENDS Integers, Sequences, FiniteSets, Bags, TLC

VARIABLES
    \* ---- job queue (broker side) ----
    queues,        \* queue name -> bag of messages pending in the broker
    dlx,           \* bag of messages nacked without requeue (routed to "dlx")
    ackedMsgs,     \* bag of messages acknowledged
    \* ---- job queue (worker side) ----
    wpc,           \* worker -> position in the worker loop
    wmsg,          \* worker -> the delivery it holds (NoMsg when none)
    wtask,         \* worker -> the decoded task (NoTask when none)
    wpub,          \* worker -> what the retry branch published in this iteration
    \* ---- job queue (history) ----
    created,       \* ids of the jobs created so far
    malformedSent, \* number of undecodable bodies put on the queues so far
    invoked,       \* job id -> number of handler invocations
    failures,      \* job id -> number of handler failures
    republished,   \* job id -> number of successful republishes by a worker
    \* ---- PublishTask priority ----
    prioIn,        \* task.Priority handed to PublishTask
    prioOut,       \* amqp.Publishing.Priority it attached (NoPrio before the call)
    \* ---- consumer start-up ----
    cpc,           \* queue name -> position of its ConsumeTask goroutine
    chanQos,       \* prefetch count currently set on the shared channel
    prefetch,      \* queue name -> prefetch limit in force for its consumer
    backlog,       \* queue name -> messages waiting in the broker
    unacked,       \* queue name -> deliveries sent to the consumer, not yet settled
    \* ---- render executor ----
    compClips,     \* ClipIDs of composition.SelectedClips, in order
    cmdInputs,     \* the "-i" paths of the command RenderComposition built, in order
    filterComplex, \* the filters of the filter graph it built, in order
    rpc,           \* position of RenderComposition / runWithProgress
    withProgress,  \* whether a progress callback was passed
    encPc,         \* encoder subprocess: "none", "running", "exited"
    toEmit,        \* progress lines the encoder still has to write
    emitted,       \* progress lines the encoder has written, in order
    pipe,          \* content of the stdout pipe
    delivered,     \* lines the callback was invoked for, in order
    readerOn,      \* whether the progress-reader goroutine is running
    rdPc,          \* the reader's position in its loop: "scan" or "callback"
    exitStatus,    \* exit status of the encoder
    result,        \* what RenderComposition returned: "none", "ok", "error"
    \* ---- composition: GenerateComposition ----
    clips,             \* sc.clips: the candidate clips in catalog order
    requirements,      \* sc.requirements
    gpc,               \* position of GenerateComposition
    scored,            \* scoredClips: what scoreClips returned
    selectedClips,     \* SelectClips: the segments selected so far
    remainingDuration, \* SelectClips: the budget left
    usedClips,         \* SelectClips: ClipIDs already selected
    selErr,            \* the error SelectClips returned ("none" before it returns)
    \* ---- composition: generateTimeline ----
    tlClips,           \* the clips []ClipSegment handed to generateTimeline
    tpc,               \* position of generateTimeline: "loop" or "returned"
    tlIndex,           \* the loop index i (from 0)
    currentTime,       \* currentTime
    timeline,          \* the events appended so far
    \* ---- render plan: buildRenderArgs ----
    optionsGiven,      \* the render options as the caller supplied them
    compiled,          \* the argument lists buildRenderArgs returned, one per call
    \* ---- render executor: parseProgress ----
    progressLine,      \* the line the reader goroutine took from the scanner
    totalDuration,     \* totalDuration, in hundredths of a second
    reported,          \* what the encoder reported in the line
    progress,          \* the *RenderProgress parseProgress returned
    ppc                \* position of the reader: "parse" or "parsed"

qvars == <<queues, dlx, ackedMsgs, wpc, wmsg, wtask, wpub, created,
           malformedSent, invoked, failures, republished>>
pvars == <<prioIn, prioOut>>
cvars == <<cpc, chanQos, prefetch, backlog, unacked>>
rvars == <<compClips, cmdInputs, filterComplex, rpc, withProgress, encPc, toEmit, emitted, pipe, delivered,
           readerOn, rdPc, exitStatus, result>>
svars == <<clips, requirements, gpc, scored, selectedClips, remainingDuration,
           usedClips, selErr>>
tvars == <<tlClips, tpc, tlIndex, currentTime, timeline>>
avars == <<optionsGiven, compiled>>
lvars == <<progressLine, totalDuration, reported, progress, ppc>>
vars == <<qvars, pvars, cvars, rvars, svars, tvars, avars, lvars>>

(***************************************************************************)
(* Bounds of the model.                                                    *)
(***************************************************************************)
MaxJobs == 1          \* jobs created in one run
MaxMalformed == 1     \* undecodable bodies put on the queues in one run

(***************************************************************************)
(* Program constants.                                                      *)
(***************************************************************************)
DefaultMaxRetry == 3  \* CreateTask: MaxRetry: 3
MaxPriority == 10     \* PublishTask: if priority > 10 { priority = 10 }
Uint8Range == 256     \* uint8(task.Priority)

\* The queues the model runs, with the concurrency startBackgroundWorkers
\* passes to ConsumeTask for each.
Concurrency ==
    [q \in {"smart_composition", "video_processing"} |->
        IF q = "smart_composition" THEN 1 ELSE 2]
Queues == DOMAIN Concurrency

\* The priority the Publish*Task helper of each queue passes to CreateTask.
HelperPriority(q) == IF q = "smart_composition" THEN 7 ELSE 5

\* The task type the Publish*Task helper of each queue passes to CreateTask.
HelperType(q) == q

JobIds == 1..MaxJobs
\* ConsumeTask: for i := 0; i < concurrency; i++ { go r.worker(...) }
Workers == {w \in Queues \X (1..2) : w[2] <= Concurrency[w[1]]}
QueueOf(w) == w[1]

(***************************************************************************)
(* Tasks, bodies and messages.                                             *)
(***************************************************************************)
\* CreateTask: Retry 0, MaxRetry 3; the id stands for generateTaskID(), the
\* payload and the creation time are fixed per job.
CreateTask(j, taskType, priority) ==
    [id |-> j, type |-> taskType, payload |-> j, priority |-> priority,
     retry |-> 0, max_retry |-> DefaultMaxRetry, created_at |-> j]

NoTask ==
    [id |-> 0, type |-> "", payload |-> 0, priority |-> 0,
     retry |-> 0, max_retry |-> 0, created_at |-> 0]

\* json.Marshal(task): the JSON object of the wire format.
Marshal(t) ==
    [valid |-> TRUE, j_id |-> t.id, j_type |-> t.type, j_payload |-> t.payload,
     j_priority |-> t.priority, j_retry |-> t.retry,
     j_max_retry |-> t.max_retry, j_created_at |-> t.created_at]

\* A body json.Unmarshal cannot decode into a Task.
GarbageBody ==
    [valid |-> FALSE, j_id |-> 0, j_type |-> "", j_payload |-> 0,
     j_priority |-> 0, j_retry |-> 0, j_max_retry |-> 0, j_created_at |-> 0]

\* json.Unmarshal(msg.Body, &task): whether it succeeds, and the task.
UnmarshalOk(body) == body.valid
Unmarshal(body) ==
    [id |-> body.j_id, type |-> body.j_type, payload |-> body.j_payload,
     priority |-> body.j_priority, retry |-> body.j_retry,
     max_retry |-> body.j_max_retry, created_at |-> body.j_created_at]

\* uint8(x) of a Go int.
Uint8(x) == x % Uint8Range

\* PublishTask: priority := uint8(task.Priority); if priority > 10 { priority = 10 }
PublishedPriority(p) ==
    IF Uint8(p) > MaxPriority THEN MaxPriority ELSE Uint8(p)

\* The amqp.Publishing PublishTask hands to channel.Publish.
Publishing(t) == [body |-> Marshal(t), priority |-> PublishedPriority(t.priority)]

NoMsg == [body |-> GarbageBody, priority |-> -1]

Add(bag, m) == bag (+) SetToBag({m})
Remove(bag, m) == bag (-) SetToBag({m})

(***************************************************************************)
(* The job queue: producers.                                               *)
(***************************************************************************)
\* Publish<X>Task: CreateTask, then PublishTask on the helper's queue.  The
\* publish either succeeds or returns an error to the caller.
PublishNewTask(j, q, ok) ==
    /\ j \notin created
    /\ created' = created \cup {j}
    /\ queues' = IF ok
                 THEN [queues EXCEPT ![q] =
                          Add(@, Publishing(CreateTask(j, HelperType(q), HelperPriority(q))))]
                 ELSE queues
    /\ UNCHANGED <<dlx, ackedMsgs, wpc, wmsg, wtask, wpub, malformedSent,
                   invoked, failures, republished>>

\* Another publisher puts a body on the queue that is not a Task.
PublishGarbage(q) ==
    /\ malformedSent < MaxMalformed
    /\ malformedSent' = malformedSent + 1
    /\ queues' = [queues EXCEPT ![q] = Add(@, [body |-> GarbageBody, priority |-> 0])]
    /\ UNCHANGED <<dlx, ackedMsgs, wpc, wmsg, wtask, wpub, created,
                   invoked, failures, republished>>

(***************************************************************************)
(* The job queue: RabbitMQClient.worker, one loop iteration in its steps.  *)
(***************************************************************************)
\* for msg := range msgs
WorkerReceive(w) ==
    /\ wpc[w] = "recv"
    /\ \E m \in BagToSet(queues[QueueOf(w)]) :
          /\ queues' = [queues EXCEPT ![QueueOf(w)] = Remove(@, m)]
          /\ wmsg' = [wmsg EXCEPT ![w] = m]
    /\ wpc' = [wpc EXCEPT ![w] = "unmarshal"]
    /\ UNCHANGED <<dlx, ackedMsgs, wtask, wpub, created, malformedSent,
                   invoked, failures, republished>>

\* A decoding failure that puts the delivery back on its queue.
UnmarshalFailedRequeue(w) ==
    /\ queues' = [queues EXCEPT ![QueueOf(w)] = Add(@, wmsg[w])]
    /\ wmsg' = [wmsg EXCEPT ![w] = NoMsg]
    /\ wpc' = [wpc EXCEPT ![w] = "recv"]
    /\ UNCHANGED <<dlx, ackedMsgs, wtask, wpub, created, malformedSent,
                   invoked, failures, republished>>

\* json.Unmarshal failed: msg.Nack(false, false); continue
UnmarshalFailed(w) ==
    /\ dlx' = Add(dlx, wmsg[w])
    /\ wmsg' = [wmsg EXCEPT ![w] = NoMsg]
    /\ wpc' = [wpc EXCEPT ![w] = "recv"]
    /\ UNCHANGED <<queues, ackedMsgs, wtask, wpub, created, malformedSent,
                   invoked, failures, republished>>

\* json.Unmarshal, and on success the call of the handler.
WorkerUnmarshal(w) ==
    /\ wpc[w] = "unmarshal"
    /\ IF UnmarshalOk(wmsg[w].body)
       THEN /\ wtask' = [wtask EXCEPT ![w] = Unmarshal(wmsg[w].body)]
            /\ wpc' = [wpc EXCEPT ![w] = "handler"]
            /\ invoked' = [invoked EXCEPT ![wmsg[w].body.j_id] = @ + 1]
            /\ UNCHANGED <<queues, dlx, ackedMsgs, wmsg, wpub, created,
                           malformedSent, failures, republished>>
       ELSE UnmarshalFailed(w)

\* err := handler(&task) returns.
HandlerReturn(w, ok) ==
    /\ wpc[w] = "handler"
    /\ IF ok
       THEN /\ wpc' = [wpc EXCEPT ![w] = "ack"]
            /\ UNCHANGED failures
       ELSE /\ wpc' = [wpc EXCEPT ![w] = "retry"]
            /\ failures' = [failures EXCEPT ![wtask[w].id] = @ + 1]
    /\ UNCHANGED <<queues, dlx, ackedMsgs, wmsg, wtask, wpub, created,
                   malformedSent, invoked, republished>>

\* A retry condition without the limit.
ShouldRetryAlways(t) == TRUE

\* A retry condition that is off by one.
ShouldRetryLeq(t) == t.retry <= t.max_retry

\* if task.Retry < task.MaxRetry
ShouldRetry(t) == t.retry < t.max_retry

\* A retry that republishes the task as it was received.
RetriedTaskSame(t) == t

\* task.Retry++
RetriedTask(t) == [t EXCEPT !.retry = @ + 1]

\* The retry branch: task.Retry++ and PublishTask(queueName, &task), which
\* either publishes or returns an error that the worker only logs.
WorkerRetry(w, ok) ==
    /\ wpc[w] = "retry"
    /\ IF ShouldRetry(wtask[w])
       THEN /\ wtask' = [wtask EXCEPT ![w] = RetriedTask(@)]
            /\ IF ok
               THEN /\ queues' = [queues EXCEPT ![QueueOf(w)] =
                                     Add(@, Publishing(RetriedTask(wtask[w])))]
                    /\ wpub' = [wpub EXCEPT ![w] = Publishing(RetriedTask(wtask[w]))]
                    /\ republished' = [republished EXCEPT ![wtask[w].id] = @ + 1]
               ELSE UNCHANGED <<queues, wpub, republished>>
       ELSE /\ ok   \* no PublishTask call is made: there is one outcome
            /\ UNCHANGED <<queues, wtask, wpub, republished>>
    /\ wpc' = [wpc EXCEPT ![w] = "nack"]
    /\ UNCHANGED <<dlx, ackedMsgs, wmsg, created, malformedSent, invoked, failures>>

\* A nack that puts the delivery back on its queue: msg.Nack(false, true).
WorkerNackRequeue(w) ==
    /\ wpc[w] = "nack"
    /\ queues' = [queues EXCEPT ![QueueOf(w)] = Add(@, wmsg[w])]
    /\ wmsg' = [wmsg EXCEPT ![w] = NoMsg]
    /\ wtask' = [wtask EXCEPT ![w] = NoTask]
    /\ wpub' = [wpub EXCEPT ![w] = NoMsg]
    /\ wpc' = [wpc EXCEPT ![w] = "recv"]
    /\ UNCHANGED <<dlx, ackedMsgs, created, malformedSent, invoked,
                   failures, republished>>

\* msg.Nack(false, false) after a handler failure.
WorkerNack(w) ==
    /\ wpc[w] = "nack"
    /\ dlx' = Add(dlx, wmsg[w])
    /\ wmsg' = [wmsg EXCEPT ![w] = NoMsg]
    /\ wtask' = [wtask EXCEPT ![w] = NoTask]
    /\ wpub' = [wpub EXCEPT ![w] = NoMsg]
    /\ wpc' = [wpc EXCEPT ![w] = "recv"]
    /\ UNCHANGED <<queues, ackedMsgs, created, malformedSent, invoked,
                   failures, republished>>

\* msg.Ack(false) after the handler returned nil.
WorkerAck(w) ==
    /\ wpc[w] = "ack"
    /\ ackedMsgs' = Add(ackedMsgs, wmsg[w])
    /\ wmsg' = [wmsg EXCEPT ![w] = NoMsg]
    /\ wtask' = [wtask EXCEPT ![w] = NoTask]
    /\ wpc' = [wpc EXCEPT ![w] = "recv"]
    /\ UNCHANGED <<queues, dlx, wpub, created, malformedSent, invoked,
                   failures, republished>>

(***************************************************************************)
(* Idle values of each subsystem, and the job queue's specification.       *)
(***************************************************************************)
NoPrio == -1

QueueIdle ==
    /\ queues = [q \in Queues |-> EmptyBag]
    /\ dlx = EmptyBag
    /\ ackedMsgs = EmptyBag
    /\ wpc = [w \in Workers |-> "recv"]
    /\ wmsg = [w \in Workers |-> NoMsg]
    /\ wtask = [w \in Workers |-> NoTask]
    /\ wpub = [w \in Workers |-> NoMsg]
    /\ created = {}
    /\ malformedSent = 0
    /\ invoked = [j \in JobIds |-> 0]
    /\ failures = [j \in JobIds |-> 0]
    /\ republished = [j \in JobIds |-> 0]

PrioIdle ==
    /\ prioIn = 0
    /\ prioOut = NoPrio

ConsumeIdle ==
    /\ cpc = [q \in Queues |-> "qos"]
    /\ chanQos = 0
    /\ prefetch = [q \in Queues |-> 0]
    /\ backlog = [q \in Queues |-> 0]
    /\ unacked = [q \in Queues |-> 0]

RenderIdle ==
    /\ compClips = <<>>
    /\ cmdInputs = <<>>
    /\ filterComplex = <<>>
    /\ rpc = "call"
    /\ withProgress = FALSE
    /\ encPc = "none"
    /\ toEmit = 0
    /\ emitted = <<>>
    /\ pipe = <<>>
    /\ delivered = <<>>
    /\ readerOn = FALSE
    /\ rdPc = "scan"
    /\ exitStatus = 0
    /\ result = "none"

SelectIdle ==
    /\ clips = <<>>
    /\ requirements = [TargetDuration |-> 0, MinClipDuration |-> 0, TransitionStyle |-> ""]
    /\ gpc = "score"
    /\ scored = <<>>
    /\ selectedClips = <<>>
    /\ remainingDuration = 0
    /\ usedClips = {}
    /\ selErr = "none"

TimelineIdle ==
    /\ tlClips = <<>>
    /\ tpc = "loop"
    /\ tlIndex = 0
    /\ currentTime = 0
    /\ timeline = <<>>

\* No render options (a nil *RenderOptions), nothing compiled.
NilOptions ==
    [nil |-> TRUE, Preset |-> "", Quality |-> "", CRF |-> 0, Width |-> 0, Height |-> 0,
     FrameRate |-> 0, VideoBitrate |-> 0, AudioBitrate |-> 0, Filters |-> <<>>]

CompileIdle ==
    /\ optionsGiven = NilOptions
    /\ compiled = <<>>

\* A reader that has taken no line yet.
NoProgress == [nil |-> TRUE]

ProgressIdle ==
    /\ progressLine = <<>>
    /\ totalDuration = 0
    /\ reported = <<>>
    /\ progress = NoProgress
    /\ ppc = "parse"

\* The state once InitRabbitMQ has declared the queues and the workers of
\* every queue wait for their first delivery.
InitQueue ==
    /\ QueueIdle /\ PrioIdle /\ ConsumeIdle /\ RenderIdle /\ SelectIdle /\ TimelineIdle /\ CompileIdle
    /\ ProgressIdle

NextQueue ==
    \/ \E j \in JobIds, q \in Queues, ok \in BOOLEAN :
          PublishNewTask(j, q, ok) /\ UNCHANGED <<pvars, cvars, rvars, svars, tvars, avars, lvars>>
    \/ \E q \in Queues : PublishGarbage(q) /\ UNCHANGED <<pvars, cvars, rvars, svars, tvars, avars, lvars>>
    \/ \E w \in Workers : WorkerReceive(w) /\ UNCHANGED <<pvars, cvars, rvars, svars, tvars, avars, lvars>>
    \/ \E w \in Workers : WorkerUnmarshal(w) /\ UNCHANGED <<pvars, cvars, rvars, svars, tvars, avars, lvars>>
    \/ \E w \in Workers, ok \in BOOLEAN :
          HandlerReturn(w, ok) /\ UNCHANGED <<pvars, cvars, rvars, svars, tvars, avars, lvars>>
    \/ \E w \in Workers, ok \in BOOLEAN :
          WorkerRetry(w, ok) /\ UNCHANGED <<pvars, cvars, rvars, svars, tvars, avars, lvars>>
    \/ \E w \in Workers : WorkerNack(w) /\ UNCHANGED <<pvars, cvars, rvars, svars, tvars, avars, lvars>>
    \/ \E w \in Workers : WorkerAck(w) /\ UNCHANGED <<pvars, cvars, rvars, svars, tvars, avars, lvars>>

SpecQueue == InitQueue /\ [][NextQueue]_vars

(***************************************************************************)
(* Claims about the job queue (checked under SpecQueue).                   *)
(***************************************************************************)
GarbageMsg == [body |-> GarbageBody, priority |-> 0]
AllQueued == UNION {BagToSet(queues[q]) : q \in Queues}
Held == {wmsg[w] : w \in {x \in Workers : wpc[x] # "recv"}}
MsgsOf(j, S) == {m \in S : m.body.valid /\ m.body.j_id = j}
HoldersOf(j) ==
    {w \in Workers : wpc[w] # "recv" /\ wmsg[w].body.valid /\ wmsg[w].body.j_id = j}
AtMaxRetry(m) == m.body.valid /\ m.body.j_retry = m.body.j_max_retry

\* The handler of job j has failed on a delivery whose retry equals max_retry.
Exhausted(j) ==
    \/ \E w \in HoldersOf(j) : wpc[w] \in {"retry", "nack"} /\ AtMaxRetry(wmsg[w])
    \/ \E m \in MsgsOf(j, BagToSet(dlx)) : AtMaxRetry(m)

\* C1: in every reachable state every message and every decoded task of a
\* created job has retry <= max_retry; and once the handler of a job has
\* failed on a delivery with retry = max_retry, nothing is published for the
\* job again: no copy of it is pending on any queue, no worker holds a copy
\* it could still hand to a handler or republish, and the delivery ends in the
\* dead-letter exchange (nacked without requeue).
C1_RetryNeverExceedsMax ==
    /\ \A m \in AllQueued \cup Held \cup BagToSet(dlx) \cup BagToSet(ackedMsgs) :
          m.body.valid => m.body.j_retry <= m.body.j_max_retry
    /\ \A w \in Workers : wtask[w].retry <= wtask[w].max_retry
    /\ \A j \in JobIds :
          Exhausted(j) =>
             /\ MsgsOf(j, AllQueued) = {}
             /\ \A w \in HoldersOf(j) :
                   \/ /\ wpc[w] \in {"retry", "nack"}
                      /\ AtMaxRetry(wmsg[w])
                      /\ wpub[w] = NoMsg
                   \/ /\ wpc[w] = "nack"
                      /\ ~AtMaxRetry(wmsg[w])
             /\ Cardinality({w \in HoldersOf(j) : AtMaxRetry(wmsg[w])}) <= 1
             /\ {w \in HoldersOf(j) : AtMaxRetry(wmsg[w])} = {} =>
                   \E m \in MsgsOf(j, BagToSet(dlx)) : AtMaxRetry(m)

\* C1 witness: a delivery with retry = max_retry = 3 whose handler failed
\* has been dead-lettered.
C1_Witness ==
    \E m \in BagToSet(dlx) :
        AtMaxRetry(m) /\ m.body.j_max_retry = DefaultMaxRetry /\ failures[m.body.j_id] > 0

\* C2 (as claimed): after max_retry consecutive handler failures the handler
\* is never invoked for the job again, i.e. no handler runs for a job that
\* has already failed max_retry times.
C2_DeadAfterMaxRetryFailures ==
    \A w \in Workers :
        wpc[w] = "handler" => failures[wtask[w].id] < wtask[w].max_retry

\* C2 (amended): the handler of a job is invoked at most max_retry + 1 times
\* (the first attempt and max_retry retries); after max_retry + 1 consecutive
\* failures no copy of the job is pending or republished, its last delivery
\* is nacked without requeue, and no handler runs for it again.
C2_DeadAfterMaxRetryPlusOneFailures ==
    /\ \A w \in Workers :
          wpc[w] = "handler" => failures[wtask[w].id] < wtask[w].max_retry + 1
    /\ \A j \in JobIds :
          /\ invoked[j] <= DefaultMaxRetry + 1
          /\ failures[j] >= DefaultMaxRetry + 1 =>
                /\ failures[j] = DefaultMaxRetry + 1
                /\ MsgsOf(j, AllQueued) = {}
                /\ \A w \in HoldersOf(j) :
                      \/ wpc[w] = "nack"
                      \/ wpc[w] = "retry" /\ ~ShouldRetry(wtask[w])
                /\ republished[j] = DefaultMaxRetry

\* C2 witness: a job has failed max_retry + 1 times and its last delivery
\* (retry = max_retry) is in the dead-letter exchange.
C2_Witness ==
    \E j \in JobIds :
        /\ failures[j] = DefaultMaxRetry + 1
        /\ invoked[j] = DefaultMaxRetry + 1
        /\ \E m \in MsgsOf(j, BagToSet(dlx)) : AtMaxRetry(m)

\* C3 (as claimed): a job acknowledged after k < max_retry failures was
\* re-enqueued exactly k times, is acknowledged on attempt k+1, and no message
\* of it was ever nacked without requeue (none is in the dead-letter exchange).
C3_RetriedJobNeverDeadLettered ==
    \A m \in BagToSet(ackedMsgs) :
        (m.body.valid /\ failures[m.body.j_id] < m.body.j_max_retry) =>
            /\ republished[m.body.j_id] = failures[m.body.j_id]
            /\ m.body.j_retry = failures[m.body.j_id]
            /\ invoked[m.body.j_id] = failures[m.body.j_id] + 1
            /\ MsgsOf(m.body.j_id, BagToSet(dlx)) = {}

\* C4 (as claimed): whenever a handler failed on a delivery with
\* retry < max_retry, by the time the worker settles the delivery exactly one
\* copy of the job has been published on the same queue with retry + 1 and
\* the other fields unchanged, whatever the republish call returned.
C4_FailureRepublishesOneCopy ==
    \A w \in Workers :
        (wpc[w] = "nack" /\ wmsg[w].body.j_retry < wmsg[w].body.j_max_retry) =>
            /\ wpub[w] = [wmsg[w] EXCEPT !.body.j_retry = @ + 1]
            /\ republished[wmsg[w].body.j_id] = wmsg[w].body.j_retry + 1

\* Undecodable deliveries are only ever held between receive and decode, and
\* each is pending, held or dead-lettered: none is acknowledged or duplicated.
C5_GarbageOnlyDeadLettered ==
    /\ \A w \in Workers :
          (wpc[w] # "recv" /\ ~wmsg[w].body.valid) => wpc[w] = "unmarshal"
    /\ \A w \in Workers : wpc[w] \in {"handler", "retry", "nack", "ack"} =>
          /\ wmsg[w].body.valid
          /\ wtask[w] = Unmarshal(wmsg[w].body)
             \/ wtask[w] = RetriedTask(Unmarshal(wmsg[w].body))
    /\ CopiesIn(GarbageMsg, ackedMsgs) = 0
    /\ \A q \in Queues : CopiesIn(GarbageMsg, queues[q]) <= malformedSent
    /\ CopiesIn(GarbageMsg, dlx) <= malformedSent

\* The step a worker takes on an undecodable delivery.
C5_GarbageStep ==
    \A w \in Workers :
        (wpc[w] = "unmarshal" /\ ~UnmarshalOk(wmsg[w].body) /\ wpc'[w] # wpc[w]) =>
            /\ wpc'[w] = "recv"
            /\ dlx' = Add(dlx, wmsg[w])
            /\ queues' = queues
            /\ invoked' = invoked
            /\ republished' = republished
            /\ ackedMsgs' = ackedMsgs

\* C5: a delivery whose body cannot be decoded is nacked without requeue at
\* once: no handler is invoked for it, nothing is republished for it, and the
\* worker goes back to taking the next delivery.
C5_MalformedDeadLettered == []C5_GarbageOnlyDeadLettered /\ [][C5_GarbageStep]_vars

\* C5 witness: an undecodable delivery was dead-lettered and a worker of the
\* same queue set has gone on to run a handler.
C5_Witness ==
    /\ CopiesIn(GarbageMsg, dlx) = 1
    /\ \E w \in Workers : wpc[w] = "handler"

(***************************************************************************)
(* PublishTask's priority, as a function of task.Priority.                 *)
(***************************************************************************)
MaxAbsPriority == 300   \* task.Priority ranges over -300..300

InitPrio ==
    /\ QueueIdle /\ ConsumeIdle /\ RenderIdle /\ SelectIdle /\ TimelineIdle /\ CompileIdle /\ ProgressIdle
    /\ prioIn \in -MaxAbsPriority..MaxAbsPriority
    /\ prioOut = NoPrio

\* PublishTask computes the priority of the amqp.Publishing.
PublishTaskPriority ==
    /\ prioOut = NoPrio
    /\ prioOut' = PublishedPriority(prioIn)
    /\ UNCHANGED prioIn

NextPrio == PublishTaskPriority /\ UNCHANGED <<qvars, cvars, rvars, svars, tvars, avars, lvars>>

SpecPrio == InitPrio /\ [][NextPrio]_vars

\* C6 (as claimed): for every task.Priority the published priority is in
\* [0,10], and every task.Priority greater than 10 is published with 10.
C6_PriorityClampedToTen ==
    prioOut # NoPrio =>
        /\ prioOut \in 0..MaxPriority
        /\ prioIn > MaxPriority => prioOut = MaxPriority

(***************************************************************************)
(* Consumer start-up: startBackgroundWorkers runs one ConsumeTask per      *)
(* queue, each in its own goroutine, all on the one channel of the client. *)
(***************************************************************************)
MaxBacklog == 2   \* messages published to one queue

\* r.channel.Qos(concurrency, 0, false); an error ends ConsumeTask.
ConsumeTaskQos(q, ok) ==
    /\ cpc[q] = "qos"
    /\ IF ok
       THEN /\ chanQos' = Concurrency[q]
            /\ cpc' = [cpc EXCEPT ![q] = "consume"]
       ELSE /\ cpc' = [cpc EXCEPT ![q] = "failed"]
            /\ UNCHANGED chanQos
    /\ UNCHANGED <<prefetch, backlog, unacked>>

\* r.channel.Consume(queueName, ...): the consumer gets the prefetch count the
\* channel holds when it is registered; then the workers are started.
ConsumeTaskConsume(q, ok) ==
    /\ cpc[q] = "consume"
    /\ IF ok
       THEN /\ prefetch' = [prefetch EXCEPT ![q] = chanQos]
            /\ cpc' = [cpc EXCEPT ![q] = "done"]
       ELSE /\ cpc' = [cpc EXCEPT ![q] = "failed"]
            /\ UNCHANGED prefetch
    /\ UNCHANGED <<chanQos, backlog, unacked>>

\* A task is published to the queue.
BrokerEnqueue(q) ==
    /\ backlog[q] + unacked[q] < MaxBacklog
    /\ backlog' = [backlog EXCEPT ![q] = @ + 1]
    /\ UNCHANGED <<cpc, chanQos, prefetch, unacked>>

\* The broker sends a delivery to the queue's consumer (auto-ack is false):
\* only while the consumer holds fewer unacknowledged deliveries than its
\* prefetch limit.
BrokerDeliver(q) ==
    /\ cpc[q] = "done"
    /\ backlog[q] > 0
    /\ unacked[q] < prefetch[q]
    /\ backlog' = [backlog EXCEPT ![q] = @ - 1]
    /\ unacked' = [unacked EXCEPT ![q] = @ + 1]
    /\ UNCHANGED <<cpc, chanQos, prefetch>>

\* A worker settles a delivery: msg.Ack(false) or msg.Nack(false, false).
WorkerSettle(q) ==
    /\ unacked[q] > 0
    /\ unacked' = [unacked EXCEPT ![q] = @ - 1]
    /\ UNCHANGED <<cpc, chanQos, prefetch, backlog>>

InitConsume ==
    /\ QueueIdle /\ PrioIdle /\ ConsumeIdle /\ RenderIdle /\ SelectIdle /\ TimelineIdle /\ CompileIdle
    /\ ProgressIdle

NextConsume ==
    \/ \E q \in Queues, ok \in BOOLEAN :
          ConsumeTaskQos(q, ok) /\ UNCHANGED <<qvars, pvars, rvars, svars, tvars, avars, lvars>>
    \/ \E q \in Queues, ok \in BOOLEAN :
          ConsumeTaskConsume(q, ok) /\ UNCHANGED <<qvars, pvars, rvars, svars, tvars, avars, lvars>>
    \/ \E q \in Queues : BrokerEnqueue(q) /\ UNCHANGED <<qvars, pvars, rvars, svars, tvars, avars, lvars>>
    \/ \E q \in Queues : BrokerDeliver(q) /\ UNCHANGED <<qvars, pvars, rvars, svars, tvars, avars, lvars>>
    \/ \E q \in Queues : WorkerSettle(q) /\ UNCHANGED <<qvars, pvars, rvars, svars, tvars, avars, lvars>>

SpecConsume == InitConsume /\ [][NextConsume]_vars

\* C7 (as claimed): the prefetch limit in force for each queue's consumer is
\* the concurrency passed to that queue's ConsumeTask call, and the consumer
\* never holds more unacknowledged deliveries than that concurrency, under
\* every interleaving of the ConsumeTask calls.
C7_PrefetchEqualsConcurrency ==
    \A q \in Queues :
        cpc[q] = "done" =>
            /\ prefetch[q] = Concurrency[q]
            /\ unacked[q] <= Concurrency[q]

(***************************************************************************)
(* The render executor: RenderComposition with and without a progress      *)
(* callback, the encoder subprocess, its stdout pipe and the progress      *)
(* reader goroutine of runWithProgress.                                    *)
(***************************************************************************)
PipeCap == 3              \* lines the stdout pipe buffers
MaxRenderClips == 2       \* segments of the composition handed to RenderComposition
MaxCallbacks == 3         \* callback invocations recorded in one run
MaxLines == PipeCap + 1   \* progress lines one encoder run writes at most

\* The encoder's progress lines are numbered 1, 2, ...; EmptyLine is the text
\* "" that ProgressScanner.Text returns.
EmptyLine == 0

\* ProgressScanner.Scan: return true
ScannerScan(p) == TRUE

\* ProgressScanner.Text: return ""
ScannerText(p) == EmptyLine

\* parseProgress never returns nil: the callback runs for every scanned line.
ParseProgressNonNil(line) == TRUE

\* A wait that reports success whatever the exit status.
WaitResultIgnoringStatus(status) == "ok"

\* cmd.Wait(): nil when the subprocess exited with status zero, else an error.
WaitResult(status) == IF status = 0 THEN "ok" ELSE "error"

\* cmd.Run() in the path without a callback: nil becomes nil, an error is
\* wrapped ("failed to render composition").
RunResult(status) == IF WaitResult(status) = "ok" THEN "ok" ELSE "error"

\* fmt.Sprintf("/path/to/clip/%d.mp4", clip.ClipID)
ClipPath(id) == "/path/to/clip/" \o ToString(id) \o ".mp4"

RECURSIVE InputPaths(_, _)
\* RenderComposition, "Add input files": one "-i" path for each ClipID that
\* is not yet in the map inputClips, in the order of the selected clips.
InputPaths(comp, inputClips) ==
    IF comp = <<>> THEN <<>>
    ELSE IF comp[1] \in inputClips
         THEN InputPaths(Tail(comp), inputClips)
         ELSE <<ClipPath(comp[1])>> \o InputPaths(Tail(comp), inputClips \cup {comp[1]})

\* buildFilterComplex: "[i:v]trim=start=..:duration=..,setpts=PTS-STARTPTS[vi]"
\* of the clip at index i (from 0): its input index, the segment whose
\* StartTime and Duration it takes, and the label of its output.
TrimFilter(i) ==
    [kind |-> "trim", input |-> i, stream |-> "v", segment |-> i + 1,
     output |-> <<"v", i>>]

\* buildFilterComplex: "[i:a]atrim=start=..:duration=..,asetpts=PTS-STARTPTS[ai]"
AudioTrimFilter(i) ==
    [kind |-> "atrim", input |-> i, stream |-> "a", segment |-> i + 1,
     output |-> <<"a", i>>]

\* buildFilterComplex: fmt.Sprintf("%s concat=n=%d:v=1:a=1[outv][outa]",
\* videoInputs, len(composition.SelectedClips)); audioInputs is built in the
\* same loop and is not an argument of the Sprintf.
ConcatFilter(n) ==
    [kind |-> "concat", inputs |-> [k \in 1..n |-> <<"v", k - 1>>], n |-> n,
     outputs |-> <<"outv", "outa">>]

\* buildFilterComplex: the filters that are joined with ";" (none, i.e. "",
\* for a composition without clips).
buildFilterComplex(comp) ==
    IF Len(comp) = 0 THEN <<>>
    ELSE [k \in 1..(2 * Len(comp)) |->
             IF k % 2 = 1 THEN TrimFilter((k - 1) \div 2)
                          ELSE AudioTrimFilter((k - 1) \div 2)]
         \o (IF Len(comp) > 1 THEN <<ConcatFilter(Len(comp))>> ELSE <<>>)

\* RenderComposition builds the command and starts the subprocess (cmd.Run, or
\* StdoutPipe and cmd.Start in runWithProgress, which then launches the
\* progress reader).  A start that fails returns the error at once.  The
\* encoder writes progress to stdout only when -progress pipe:1 was passed.
\* Nothing on the way looks at len(composition.SelectedClips): with no clips
\* buildFilterComplex returns "", no "-i" is added, and the command made of the
\* render options and the output path is started all the same.
RenderStart(ok, n) ==
    /\ rpc = "call"
    /\ IF ok
       THEN /\ rpc' = "wait"
            /\ encPc' = "running"
            /\ toEmit' = IF withProgress THEN n ELSE 0
            /\ readerOn' = withProgress
            /\ UNCHANGED result
       ELSE /\ n = 0   \* no subprocess runs: there is one outcome
            /\ rpc' = "returned"
            /\ result' = "error"
            /\ UNCHANGED <<encPc, toEmit, readerOn>>
    /\ cmdInputs' = InputPaths(compClips, {})
    /\ filterComplex' = buildFilterComplex(compClips)
    /\ UNCHANGED <<compClips, withProgress, emitted, pipe, delivered, rdPc, exitStatus>>

\* The encoder writes its next progress line; the write blocks while the
\* pipe is full.
EncoderWrite ==
    /\ encPc = "running"
    /\ toEmit > 0
    /\ Len(pipe) < PipeCap
    /\ pipe' = Append(pipe, Len(emitted) + 1)
    /\ emitted' = Append(emitted, Len(emitted) + 1)
    /\ toEmit' = toEmit - 1
    /\ UNCHANGED <<compClips, cmdInputs, filterComplex,
                   rpc, withProgress, encPc, delivered, readerOn, rdPc,
                   exitStatus, result>>

\* The encoder has written everything and exits.
EncoderExit(status) ==
    /\ encPc = "running"
    /\ toEmit = 0
    /\ encPc' = "exited"
    /\ exitStatus' = status
    /\ UNCHANGED <<compClips, cmdInputs, filterComplex,
                   rpc, withProgress, toEmit, emitted, pipe, delivered,
                   readerOn, rdPc, result>>

\* The reader goroutine,
\*   for scanner.Scan() { line := scanner.Text()
\*       if progress := parseProgress(line, ...); progress != nil { progressCallback(progress) } }
\* in two steps.  First the loop condition: neither Scan nor Text reads the pipe.
ReaderScan ==
    /\ readerOn
    /\ rdPc = "scan"
    /\ IF ScannerScan(pipe)
       THEN rdPc' = "callback" /\ UNCHANGED readerOn
       ELSE readerOn' = FALSE /\ UNCHANGED rdPc
    /\ UNCHANGED <<compClips, cmdInputs, filterComplex,
                   rpc, withProgress, encPc, toEmit, emitted, pipe,
                   delivered, exitStatus, result>>

\* Then the loop body: the callback is invoked for the scanner's text.  Only
\* the first MaxCallbacks invocations are recorded.
ReaderCallback ==
    /\ readerOn
    /\ rdPc = "callback"
    /\ rdPc' = "scan"
    /\ delivered' = IF ParseProgressNonNil(ScannerText(pipe)) /\ Len(delivered) < MaxCallbacks
                    THEN Append(delivered, ScannerText(pipe))
                    ELSE delivered
    /\ UNCHANGED <<compClips, cmdInputs, filterComplex,
                   rpc, withProgress, encPc, toEmit, emitted, pipe,
                   readerOn, exitStatus, result>>

\* cmd.Wait() (inside cmd.Run() when there is no callback) returns once the
\* subprocess has exited, and RenderComposition returns its result.
WaitReturn ==
    /\ rpc = "wait"
    /\ encPc = "exited"
    /\ rpc' = "returned"
    /\ result' = IF withProgress THEN WaitResult(exitStatus) ELSE RunResult(exitStatus)
    /\ UNCHANGED <<compClips, cmdInputs, filterComplex,
                   withProgress, encPc, toEmit, emitted, pipe, delivered,
                   readerOn, rdPc, exitStatus>>

\* The compositions handed to RenderComposition: up to MaxRenderClips segments,
\* each naming a clip.
RenderClipIds == 1..MaxRenderClips
Compositions == UNION {[1..n -> RenderClipIds] : n \in 0..MaxRenderClips}

InitRender ==
    /\ QueueIdle /\ PrioIdle /\ ConsumeIdle /\ SelectIdle /\ TimelineIdle /\ CompileIdle /\ ProgressIdle
    /\ compClips \in Compositions
    /\ cmdInputs = <<>>
    /\ filterComplex = <<>>
    /\ rpc = "call"
    /\ withProgress \in BOOLEAN
    /\ encPc = "none"
    /\ toEmit = 0
    /\ emitted = <<>>
    /\ pipe = <<>>
    /\ delivered = <<>>
    /\ readerOn = FALSE
    /\ rdPc = "scan"
    /\ exitStatus = 0
    /\ result = "none"

StartStep == \E ok \in BOOLEAN, n \in 0..MaxLines : RenderStart(ok, n) /\ UNCHANGED <<qvars, pvars, cvars, svars, tvars, avars, lvars>>
WriteStep == EncoderWrite /\ UNCHANGED <<qvars, pvars, cvars, svars, tvars, avars, lvars>>
ExitStep == \E status \in {0, 1} : EncoderExit(status) /\ UNCHANGED <<qvars, pvars, cvars, svars, tvars, avars, lvars>>
ScanStep == ReaderScan /\ UNCHANGED <<qvars, pvars, cvars, svars, tvars, avars, lvars>>
CallbackStep == ReaderCallback /\ UNCHANGED <<qvars, pvars, cvars, svars, tvars, avars, lvars>>
WaitStep == WaitReturn /\ UNCHANGED <<qvars, pvars, cvars, svars, tvars, avars, lvars>>

NextRender ==
    \/ StartStep
    \/ WriteStep
    \/ ExitStep
    \/ ScanStep
    \/ CallbackStep
    \/ WaitStep

SpecRender == InitRender /\ [][NextRender]_vars

\* The caller, the subprocess and the reader goroutine each keep running
\* while they can take a step.
FairSpecRender ==
    /\ InitRender /\ [][NextRender]_vars
    /\ WF_vars(StartStep)
    /\ WF_vars(WriteStep)
    /\ WF_vars(ExitStep)
    /\ WF_vars(ScanStep)
    /\ WF_vars(CallbackStep)
    /\ WF_vars(WaitStep)

IsPrefix(a, b) == Len(a) <= Len(b) /\ \A i \in 1..Len(a) : a[i] = b[i]

\* C8 (as claimed): runWithProgress always returns: whatever the reader and
\* the callback do, the subprocess gets to write its progress and exit, and
\* the wait returns.
C8_RenderAlwaysReturns == <>(rpc = "returned")

\* C9 (as claimed): the callback is invoked once per progress line the
\* encoder emitted, in emission order, and never for a line it did not emit:
\* the lines delivered are always a prefix of the lines emitted.
C9_CallbackPerEmittedLineInOrder == IsPrefix(delivered, emitted)

\* C10: RenderComposition returns a failure whenever the subprocess exited
\* with a non-zero status, with or without a callback and whatever progress
\* was delivered; it returns success only when the subprocess exited with
\* status zero; it returns nothing before the subprocess has exited or
\* failed to start.
C10_NonZeroExitIsFailure ==
    /\ rpc = "returned" =>
          /\ result \in {"ok", "error"}
          /\ (encPc = "exited" /\ exitStatus # 0) => result = "error"
          /\ result = "ok" => (encPc = "exited" /\ exitStatus = 0)
    /\ rpc # "returned" => result = "none"

\* C10 witness: a render with a callback that was invoked before the encoder
\* exited with a non-zero status, and RenderComposition returned an error.
C10_Witness ==
    /\ rpc = "returned"
    /\ withProgress
    /\ Len(delivered) > 0
    /\ encPc = "exited"
    /\ exitStatus # 0
    /\ result = "error"

\* C27 (as claimed): once runWithProgress, and with it RenderComposition, has
\* returned, the progress callback is not invoked again: the invocations
\* recorded no longer change.
C27_NoCallbackAfterReturn == [][rpc = "returned" => delivered' = delivered]_vars

\* C11 (as claimed): RenderComposition called with a composition that has no
\* selected clips never spawns the encoder subprocess and returns an error.
C11_ZeroClipsNoSubprocess ==
    Len(compClips) = 0 =>
        /\ encPc = "none"
        /\ rpc = "returned" => result = "error"

(***************************************************************************)
(* Composition: GenerateComposition with the smart_selection algorithm:    *)
(* scoreClips, then SmartSelectionAlgorithm.SelectClips one loop iteration *)
(* at a time.  Durations are whole time units.                             *)
(***************************************************************************)
MaxClips == 2         \* candidate clips in the catalog
MaxDuration == 3      \* longest clip
MaxTarget == 3        \* largest TargetDuration
MaxMin == 1           \* largest MinClipDuration

\* The values SmartSelectionAlgorithm.Score gives a clip: two tiers are
\* enough for clips to tie or not.
Scores == {0, 1}

\* findBestClip returns nil: no index of the list.
NoClip == 0

\* The candidate lists of length n.  A clip's ID is its position in the
\* catalog, or that of the first clip when the list names a clip twice; Fit
\* stands for the attributes (category, mood, style, resolution, bitrate,
\* frame rate) that determine its score.
Candidates(n) ==
    {c \in [1..n -> [ID : 1..n, Duration : 0..MaxDuration, Fit : Scores]] :
        \A i \in 1..n : c[i].ID \in {1, i}}
Catalogs == UNION {Candidates(n) : n \in 0..MaxClips}

\* SmartSelectionAlgorithm.Score, as a function of the clip's attributes.
Score(clip) == clip.Fit

\* scoreClips, "Score each clip": the copy of the clip with its score stored
\* in Metadata["composition_score"].
Scored(clip) ==
    [ID |-> clip.ID, Duration |-> clip.Duration, composition_score |-> Score(clip)]

Orderings(n) == {f \in [1..n -> 1..n] : \A i, j \in 1..n : f[i] = f[j] => i = j}

\* The less function of sort.Slice: scoreI > scoreJ.
Less(a, b) == a.composition_score > b.composition_score

\* What sort.Slice may return: any ordering of the scored clips in which no
\* later clip is less than an earlier one.  sort.Slice is not stable: the
\* order of clips with equal score is not determined.
SortSliceResults(cl) ==
    {[i \in 1..Len(cl) |-> Scored(cl[f[i]])] : f \in
        {g \in Orderings(Len(cl)) :
            \A i, j \in 1..Len(cl) :
                i < j => ~Less(Scored(cl[g[j]]), Scored(cl[g[i]]))}}

\* An eligibility test that accepts every clip.
EligibleAlways(clip, req) == TRUE

\* findBestClip: clip.Duration >= requirements.MinClipDuration
Eligible(clip, req) == clip.Duration >= req.MinClipDuration

\* findBestClip without the test of usedClips.
findBestClipAmongAll(cl, used, req) ==
    LET ok == {i \in 1..Len(cl) : Eligible(cl[i], req)}
    IN  IF ok = {} THEN NoClip ELSE CHOOSE i \in ok : \A k \in ok : i <= k

\* findBestClip: the index of the first clip of the list that is not used and
\* is eligible, NoClip when there is none.
findBestClip(cl, used, req) ==
    LET ok == {i \in 1..Len(cl) : cl[i].ID \notin used /\ Eligible(cl[i], req)}
    IN  IF ok = {} THEN NoClip ELSE CHOOSE i \in ok : \A k \in ok : i <= k

\* A segment that keeps the whole clip whatever the budget.
UntrimmedDuration(d, remaining) == d

\* clipDuration := bestClip.Duration; if clipDuration > remainingDuration
\* { clipDuration = remainingDuration }
TrimmedDuration(d, remaining) == IF d > remaining THEN remaining ELSE d

\* The ClipSegment SelectClips appends for bestClip.
Segment(clip, remaining) ==
    [ClipID |-> clip.ID, StartTime |-> 0,
     EndTime |-> TrimmedDuration(clip.Duration, remaining),
     Duration |-> TrimmedDuration(clip.Duration, remaining),
     Score |-> clip.composition_score]

\* The loop condition of SelectClips.
LoopCondition(st, cl, req) ==
    /\ st.remainingDuration > req.MinClipDuration
    /\ Len(st.selectedClips) < Len(cl)

\* One iteration of the loop of SelectClips, bestClip being non-nil.
LoopBody(st, cl, req) ==
    LET best == cl[findBestClip(cl, st.usedClips, req)]
        seg == Segment(best, st.remainingDuration)
    IN  [selectedClips |-> Append(st.selectedClips, seg),
         remainingDuration |-> st.remainingDuration - seg.Duration,
         usedClips |-> st.usedClips \cup {best.ID}]

\* The locals of SelectClips before the loop.
LoopStart(req) ==
    [selectedClips |-> <<>>, remainingDuration |-> req.TargetDuration, usedClips |-> {}]

\* GenerateComposition: scoredClips := sc.scoreClips(algorithm), and the entry
\* of SelectClips.
ScoreClips ==
    /\ gpc = "score"
    /\ scored' \in SortSliceResults(clips)
    /\ selectedClips' = LoopStart(requirements).selectedClips
    /\ remainingDuration' = LoopStart(requirements).remainingDuration
    /\ usedClips' = LoopStart(requirements).usedClips
    /\ gpc' = "select"
    /\ UNCHANGED <<clips, requirements, selErr>>

LoopState ==
    [selectedClips |-> selectedClips, remainingDuration |-> remainingDuration,
     usedClips |-> usedClips]

\* One iteration of the loop of SelectClips.
SelectIteration ==
    /\ gpc = "select"
    /\ LoopCondition(LoopState, scored, requirements)
    /\ findBestClip(scored, usedClips, requirements) # NoClip
    /\ selectedClips' = LoopBody(LoopState, scored, requirements).selectedClips
    /\ remainingDuration' = LoopBody(LoopState, scored, requirements).remainingDuration
    /\ usedClips' = LoopBody(LoopState, scored, requirements).usedClips
    /\ UNCHANGED <<clips, requirements, gpc, scored, selErr>>

\* The loop ends (its condition is false, or bestClip == nil: break) and
\* SelectClips returns selectedClips, nil.
SelectReturn ==
    /\ gpc = "select"
    /\ \/ ~LoopCondition(LoopState, scored, requirements)
       \/ findBestClip(scored, usedClips, requirements) = NoClip
    /\ gpc' = "selected"
    /\ selErr' = "nil"
    /\ UNCHANGED <<clips, requirements, scored, selectedClips, remainingDuration,
                   usedClips>>

InitSelect ==
    /\ QueueIdle /\ PrioIdle /\ ConsumeIdle /\ RenderIdle /\ TimelineIdle /\ CompileIdle /\ ProgressIdle
    /\ clips \in Catalogs
    /\ requirements \in [TargetDuration : 0..MaxTarget,
                         MinClipDuration : -1..MaxMin,
                         TransitionStyle : {""}]
    /\ gpc = "score"
    /\ scored = <<>>
    /\ selectedClips = <<>>
    /\ remainingDuration = 0
    /\ usedClips = {}
    /\ selErr = "none"

NextSelect ==
    \/ ScoreClips /\ UNCHANGED <<qvars, pvars, cvars, rvars, tvars, avars, lvars>>
    \/ SelectIteration /\ UNCHANGED <<qvars, pvars, cvars, rvars, tvars, avars, lvars>>
    \/ SelectReturn /\ UNCHANGED <<qvars, pvars, cvars, rvars, tvars, avars, lvars>>

SpecSelect == InitSelect /\ [][NextSelect]_vars

RECURSIVE SumDurations(_)
SumDurations(segs) ==
    IF segs = <<>> THEN 0 ELSE segs[1].Duration + SumDurations(Tail(segs))

\* C12: the sum of the Duration fields of the segments selected so far never
\* exceeds TargetDuration, after every iteration of the selection loop and
\* at return: the remaining budget is TargetDuration minus that sum and is
\* never negative.
C12_SelectionWithinBudget ==
    gpc \in {"select", "selected"} =>
        /\ SumDurations(selectedClips) <= requirements.TargetDuration
        /\ remainingDuration = requirements.TargetDuration - SumDurations(selectedClips)
        /\ remainingDuration >= 0

\* C12 witness: SelectClips has returned two segments, the second one trimmed
\* to the budget that was left, and the budget is used up.
C12_Witness ==
    /\ gpc = "selected"
    /\ requirements.MinClipDuration > 0
    /\ Len(selectedClips) = 2
    /\ selectedClips[1].Duration > 0
    /\ \E i \in 1..Len(scored) :
          /\ scored[i].ID = selectedClips[2].ClipID
          /\ scored[i].Duration > selectedClips[2].Duration
    /\ SumDurations(selectedClips) = requirements.TargetDuration

\* The clips of the candidate list that are not used and meet the floor.
EligibleLeft ==
    {i \in 1..Len(scored) :
        scored[i].ID \notin usedClips /\ scored[i].Duration >= requirements.MinClipDuration}

\* C13 (as claimed, taken for requirements with MinClipDuration > 0): when
\* SelectClips returns, either the remaining budget (TargetDuration minus the
\* sum of the segment durations) is strictly below MinClipDuration, or no
\* unused clip with Duration >= MinClipDuration is left in the candidate list.
C13_SelectsUntilBudgetBelowMin ==
    (gpc = "selected" /\ requirements.MinClipDuration > 0) =>
        \/ requirements.TargetDuration - SumDurations(selectedClips)
              < requirements.MinClipDuration
        \/ EligibleLeft = {}

\* The segment is a whole clip of the candidate list, not a trimmed one.
IsFullClip(seg) ==
    \E k \in 1..Len(scored) :
        scored[k].ID = seg.ClipID /\ scored[k].Duration = seg.Duration

\* C14: for a requirement with MinClipDuration > 0, every segment SelectClips
\* returns has Duration >= MinClipDuration, except possibly the final segment
\* when it is a full clip.
C14_SegmentsMeetMinDuration ==
    (gpc = "selected" /\ requirements.MinClipDuration > 0) =>
        \A i \in 1..Len(selectedClips) :
            \/ selectedClips[i].Duration >= requirements.MinClipDuration
            \/ i = Len(selectedClips) /\ IsFullClip(selectedClips[i])

\* C14 witness: with MinClipDuration > 0, SelectClips has returned a whole
\* clip followed by a clip trimmed to the budget left, and the trimmed
\* segment is longer than the minimum.
C14_Witness ==
    /\ gpc = "selected"
    /\ requirements.MinClipDuration > 0
    /\ Len(selectedClips) > 1
    /\ IsFullClip(selectedClips[1])
    /\ ~IsFullClip(selectedClips[Len(selectedClips)])
    /\ selectedClips[Len(selectedClips)].Duration > requirements.MinClipDuration

\* The ordering of the catalog by descending score in which clips with equal
\* score keep their catalog order.
StableOrdering(cl) ==
    CHOOSE g \in Orderings(Len(cl)) :
        \A i, j \in 1..Len(cl) :
            i < j =>
                \/ Score(cl[g[i]]) > Score(cl[g[j]])
                \/ Score(cl[g[i]]) = Score(cl[g[j]]) /\ g[i] < g[j]

SortStable(cl) == [i \in 1..Len(cl) |-> Scored(cl[StableOrdering(cl)[i]])]

\* SelectClips run to its end on a given list: the locals when the loop ends.
RECURSIVE RunLoop(_, _, _)
RunLoop(st, cl, req) ==
    IF LoopCondition(st, cl, req) /\ findBestClip(cl, st.usedClips, req) # NoClip
    THEN RunLoop(LoopBody(st, cl, req), cl, req)
    ELSE st

C16_ErrorWhenNoEligibleClip ==
    (/\ gpc = "selected"
     /\ \A i \in 1..Len(clips) : clips[i].Duration < requirements.MinClipDuration) =>
        /\ selErr = "error"
        /\ selectedClips = <<>>

\* A requirement whose TargetDuration is not positive or whose
\* MinClipDuration is negative.
Malformed(req) == req.TargetDuration <= 0 \/ req.MinClipDuration < 0

\* The requirements in which a positive target stands for a TargetDuration
\* that is not positive and a floor that is not negative for a negative
\* MinClipDuration, the other values kept.
PermissiveDefaults(req) ==
    {[req EXCEPT !.TargetDuration = t, !.MinClipDuration = m] :
        t \in (IF req.TargetDuration <= 0 THEN 1..(MaxClips * MaxDuration)
                                          ELSE {req.TargetDuration}),
        m \in (IF req.MinClipDuration < 0 THEN 0..MaxMin ELSE {req.MinClipDuration})}

\* C24 (as claimed): when the requirement has a TargetDuration that is not
\* positive or a negative MinClipDuration, GenerateComposition completes (no
\* panic) and SelectClips returns what it returns for some requirement in
\* which permissive default values stand for the malformed ones.
C24_MalformedRequirementsFallBack ==
    (gpc = "selected" /\ Malformed(requirements)) =>
        /\ selErr = "nil"
        /\ \E d \in PermissiveDefaults(requirements) :
              selectedClips = RunLoop(LoopStart(d), scored, d).selectedClips

\* C29: the segments SelectClips has selected, after every iteration and at
\* return, name every clip ID at most once, also when entries of the
\* candidate list share an ID, and are at most as many as the candidates.
C29_NoClipSelectedTwice ==
    gpc \in {"select", "selected"} =>
        /\ \A i, j \in 1..Len(selectedClips) :
              selectedClips[i].ClipID = selectedClips[j].ClipID => i = j
        /\ Len(selectedClips) <= Len(clips)

\* C29 witness: SelectClips returned one segment from a list of two eligible
\* entries with the same ID, with budget left for the second.
C29_Witness ==
    /\ gpc = "selected"
    /\ Len(clips) = 2
    /\ clips[1].ID = clips[2].ID
    /\ \A i \in 1..2 : clips[i].Duration >= requirements.MinClipDuration
    /\ Len(selectedClips) = 1
    /\ selectedClips[1].Duration > 0
    /\ remainingDuration > requirements.MinClipDuration

(***************************************************************************)
(* Composition: generateTimeline and selectTransition, one loop iteration  *)
(* at a time.  Times are counted in ticks of 0.05 s, the unit in which     *)
(* every transition duration and its half are whole.                       *)
(***************************************************************************)
MaxSegments == 3          \* segments handed to generateTimeline
MaxSegmentSeconds == 2    \* longest segment, in seconds

TicksPerSecond == 20

\* selectTransition: transitionTypes
TransitionTypes == <<"fade", "dissolve", "slide", "wipe", "cut">>

\* The values of requirements.TransitionStyle: the three the switch names,
\* the unset one and another one.
TransitionStyles == {"fast", "smooth", "dynamic", "", "other"}

\* selectTransition; pick is what rand.Intn(len(transitionTypes)) returned
\* (from 0).  Durations: 0.5 by default, 0.1, 1.0 and 0.3 in the switch.
selectTransition(style, pick) ==
    [Type |-> CASE style = "fast" -> "cut"
                [] style = "smooth" -> "dissolve"
                [] style = "dynamic" -> TransitionTypes[pick + 1]
                [] OTHER -> "dissolve",
     Duration |-> CASE style = "fast" -> TicksPerSecond \div 10
                    [] style = "smooth" -> TicksPerSecond
                    [] style = "dynamic" -> (3 * TicksPerSecond) \div 10
                    [] OTHER -> TicksPerSecond \div 2,
     Easing |-> "ease-in-out"]

\* The clip event generateTimeline appends for a segment.
ClipEvent(clip, time) ==
    [Type |-> "clip", StartTime |-> time, Duration |-> clip.Duration,
     Properties |-> [clip_id |-> clip.ClipID, start_time |-> clip.StartTime,
                     end_time |-> clip.EndTime]]

\* A transition placed at the boundary itself.
TransitionStartAtBoundary(time, duration) == time

\* StartTime: currentTime - transition.Duration/2
TransitionStart(time, duration) == time - duration \div 2

\* The transition event generateTimeline appends at a boundary.
TransitionEvent(transition, time) ==
    [Type |-> "transition", StartTime |-> TransitionStart(time, transition.Duration),
     Duration |-> transition.Duration, Properties |-> transition]

\* A transition after every clip, the last one too.
AfterEveryClip(i, n) == TRUE

\* "Add transition if not the last clip": if i < len(clips)-1
NotLastClip(i, n) == i < n - 1

\* One iteration of the loop of generateTimeline: the clip event, the advance
\* of currentTime, and the transition unless the clip is the last one.
TimelineIteration(pick) ==
    /\ tpc = "loop"
    /\ tlIndex < Len(tlClips)
    /\ LET clip == tlClips[tlIndex + 1]
           time == currentTime + clip.Duration
           withClip == Append(timeline, ClipEvent(clip, currentTime))
       IN  /\ currentTime' = time
           /\ IF NotLastClip(tlIndex, Len(tlClips))
              THEN timeline' = Append(withClip,
                       TransitionEvent(selectTransition(requirements.TransitionStyle, pick), time))
              ELSE /\ timeline' = withClip
                   /\ pick = 0   \* selectTransition is not called: there is one outcome
    /\ (requirements.TransitionStyle # "dynamic") => pick = 0   \* rand.Intn is not called
    /\ tlIndex' = tlIndex + 1
    /\ UNCHANGED <<tlClips, tpc>>

\* The loop is over: return timeline.
TimelineReturn ==
    /\ tpc = "loop"
    /\ tlIndex >= Len(tlClips)
    /\ tpc' = "returned"
    /\ UNCHANGED <<tlClips, tlIndex, currentTime, timeline>>

\* The durations of a segment, in ticks: a whole number of seconds (a whole
\* clip) or a quarter of a second (a clip trimmed to the budget that was left).
SegmentDurations ==
    {TicksPerSecond * d : d \in 0..MaxSegmentSeconds} \cup {TicksPerSecond \div 4}

\* The segment lists handed to generateTimeline: segment i is the start of
\* clip i.
SegmentLists ==
    UNION {{[i \in 1..n |-> [ClipID |-> i, StartTime |-> 0,
                            EndTime |-> d[i],
                            Duration |-> d[i]]] :
               d \in [1..n -> SegmentDurations]} : n \in 0..MaxSegments}

InitTimeline ==
    /\ QueueIdle /\ PrioIdle /\ ConsumeIdle /\ RenderIdle /\ CompileIdle /\ ProgressIdle
    /\ clips = <<>>
    /\ requirements \in [TargetDuration : {0}, MinClipDuration : {0},
                         TransitionStyle : TransitionStyles]
    /\ gpc = "score"
    /\ scored = <<>>
    /\ selectedClips = <<>>
    /\ remainingDuration = 0
    /\ usedClips = {}
    /\ selErr = "none"
    /\ tlClips \in SegmentLists
    /\ tpc = "loop"
    /\ tlIndex = 0
    /\ currentTime = 0
    /\ timeline = <<>>

NextTimeline ==
    \/ \E pick \in 0..(Len(TransitionTypes) - 1) :
          TimelineIteration(pick) /\ UNCHANGED <<qvars, pvars, cvars, rvars, svars, avars, lvars>>
    \/ TimelineReturn /\ UNCHANGED <<qvars, pvars, cvars, rvars, svars, avars, lvars>>

SpecTimeline == InitTimeline /\ [][NextTimeline]_vars

EventsOfType(type) == {k \in 1..Len(timeline) : timeline[k].Type = type}

\* C17: for N >= 1 segments, generateTimeline returns exactly N clip events
\* and exactly N-1 transition events, and every transition event comes after
\* some clip event and before some later clip event: none before the first
\* clip event, none after the last.
C17_TransitionsOnlyBetweenClips ==
    (tpc = "returned" /\ Len(tlClips) >= 1) =>
        /\ Cardinality(EventsOfType("clip")) = Len(tlClips)
        /\ Cardinality(EventsOfType("transition")) = Len(tlClips) - 1
        /\ Len(timeline) = 2 * Len(tlClips) - 1
        /\ \A k \in EventsOfType("transition") :
              /\ \E b \in EventsOfType("clip") : b < k
              /\ \E a \in EventsOfType("clip") : a > k

\* C17 witness: a timeline of three clips has been returned: five events,
\* the second and the fourth being transitions.
C17_Witness ==
    /\ tpc = "returned"
    /\ Len(tlClips) = 3
    /\ Len(timeline) = 5
    /\ EventsOfType("transition") = {2, 4}

RECURSIVE ClipTimeBefore(_)
\* The cumulative duration of the clip events among the first k events.
ClipTimeBefore(k) ==
    IF k = 0 THEN 0
    ELSE ClipTimeBefore(k - 1) +
         (IF timeline[k].Type = "clip" THEN timeline[k].Duration ELSE 0)

\* C18: the transition event inserted at the boundary whose cumulative clip
\* time is T has Duration d and StartTime T - d/2, where d depends only on
\* the TransitionStyle: 0.1 s (2 ticks) for "fast", 1.0 s (20 ticks) for
\* "smooth", 0.3 s (6 ticks) for "dynamic", 0.5 s (10 ticks) otherwise.
C18_TransitionStraddlesBoundary ==
    \A k \in EventsOfType("transition") :
        LET d == CASE requirements.TransitionStyle = "fast" -> 2
                   [] requirements.TransitionStyle = "smooth" -> 20
                   [] requirements.TransitionStyle = "dynamic" -> 6
                   [] OTHER -> 10
        IN  /\ timeline[k].Duration = d
            /\ timeline[k].Properties.Duration = d
            /\ 2 * timeline[k].StartTime = 2 * ClipTimeBefore(k) - d

\* C18 witness: a "dynamic" timeline with two transitions of different types
\* at two different boundaries has been returned.
C18_Witness ==
    /\ tpc = "returned"
    /\ requirements.TransitionStyle = "dynamic"
    /\ \E k, m \in EventsOfType("transition") :
          /\ timeline[k].Properties.Type # timeline[m].Properties.Type
          /\ timeline[k].StartTime < timeline[m].StartTime

\* calculateTotalDuration: the largest StartTime + Duration of the events,
\* 0 for an empty timeline.
calculateTotalDuration(tl) ==
    IF Len(tl) = 0 THEN 0
    ELSE LET ends == {0} \cup {tl[k].StartTime + tl[k].Duration : k \in 1..Len(tl)}
         IN  CHOOSE e \in ends : \A x \in ends : x <= e

\* C28 (as claimed): in the timeline generateTimeline returns, the window
\* [StartTime, StartTime + Duration] of every event lies within [0, sum of
\* the segment durations], and TotalDuration (calculateTotalDuration of the
\* timeline) equals that sum, for every transition style.
C28_EventsWithinSelectedDuration ==
    tpc = "returned" =>
        /\ \A k \in 1..Len(timeline) :
              /\ timeline[k].StartTime >= 0
              /\ timeline[k].StartTime + timeline[k].Duration <= SumDurations(tlClips)
        /\ calculateTotalDuration(timeline) = SumDurations(tlClips)

(***************************************************************************)
(* The render plan: buildRenderArgs and buildVideoFilters, as functions of *)
(* the render options, called more than once on the same options.          *)
(***************************************************************************)
MaxCRF == 2             \* largest rate-control value a caller supplies
MaxCompilations == 2    \* calls of buildRenderArgs on the same options

\* The caller supplied no crf.
Unset == -1

\* Sample user filters: none, one without parameters, one whose parameter map
\* has two keys, one with an empty name, and two filters.
FilterLists ==
    {<<>>,
     <<[Name |-> "hflip", Parameters |-> <<>>]>>,
     <<[Name |-> "scale", Parameters |-> [k \in {"w", "h"} |-> IF k = "w" THEN 640 ELSE 360]]>>,
     <<[Name |-> "", Parameters |-> <<>>]>>,
     <<[Name |-> "hflip", Parameters |-> <<>>],
       [Name |-> "fps", Parameters |-> [k \in {"fps"} |-> 30]]>>}

\* The render options callers supply: nil, or a value of each field, the crf
\* being supplied or not.
OptionsSupplied ==
    {NilOptions} \cup
    [nil : {FALSE}, Preset : {"", "fast"},
     Quality : {"low", "medium", "high", "ultra", "", "best"},
     CRF : {Unset} \cup 0..MaxCRF,
     Width : {0, 1280}, Height : {0, 720}, FrameRate : {0, 30},
     VideoBitrate : {0, 2000}, AudioBitrate : {0, 192}, Filters : FilterLists]

\* The *RenderOptions buildRenderArgs gets: CRF is an int, zero when the
\* caller supplied none.
Options(given) == [given EXCEPT !.CRF = IF @ = Unset THEN 0 ELSE @]

\* strconv.Itoa, and %d and %v of an int.
Itoa(n) == ToString(n)

\* fmt.Sprintf("%.2f", x) of a whole number.
FormatFloat2(n) == ToString(n) \o ".00"

RECURSIVE Join(_, _)
\* strings.Join
Join(strs, sep) ==
    IF Len(strs) = 0 THEN ""
    ELSE IF Len(strs) = 1 THEN strs[1]
    ELSE strs[1] \o sep \o Join(Tail(strs), sep)

\* The orders in which "for key, value := range filter.Parameters" may visit
\* the keys of the map: the iteration order of a Go map is not specified and
\* differs from one iteration to the next.
KeyOrders(params) ==
    {o \in [1..Cardinality(DOMAIN params) -> DOMAIN params] :
        \A i, j \in DOMAIN o : o[i] = o[j] => i = j}

\* The key orders of every filter of a list.
FilterKeyOrders(filters) ==
    {os \in [1..Len(filters) -> UNION {KeyOrders(filters[i].Parameters) : i \in 1..Len(filters)}] :
        \A i \in 1..Len(filters) : os[i] \in KeyOrders(filters[i].Parameters)}

\* buildVideoFilters, the body of the outer loop: the string of one filter.
FilterString(filter, order) ==
    IF Cardinality(DOMAIN filter.Parameters) > 0
    THEN filter.Name \o "=" \o
         Join([k \in 1..Len(order) |-> order[k] \o "=" \o Itoa(filter.Parameters[order[k]])], ":")
    ELSE filter.Name

\* buildVideoFilters
buildVideoFilters(filters, orders) ==
    Join([i \in 1..Len(filters) |-> FilterString(filters[i], orders[i])], ",")

\* buildRenderArgs: "Use quality presets"
QualityCRF(quality) ==
    CASE quality = "low" -> "28"
      [] quality = "medium" -> "23"
      [] quality = "high" -> "18"
      [] quality = "ultra" -> "15"
      [] OTHER -> "23"

\* buildRenderArgs
buildRenderArgs(options, orders) ==
    IF options.nil
    THEN <<"-c:v", "libx264", "-preset", "medium", "-crf", "23">>
    ELSE <<"-c:v", "libx264">>
         \o <<"-preset", IF options.Preset # "" THEN options.Preset ELSE "medium">>
         \o <<"-crf", IF options.CRF > 0 THEN Itoa(options.CRF) ELSE QualityCRF(options.Quality)>>
         \o (IF options.Width > 0 /\ options.Height > 0
             THEN <<"-s", Itoa(options.Width) \o "x" \o Itoa(options.Height)>>
             ELSE <<>>)
         \o (IF options.FrameRate > 0 THEN <<"-r", FormatFloat2(options.FrameRate)>> ELSE <<>>)
         \o (IF options.VideoBitrate > 0
             THEN <<"-b:v", Itoa(options.VideoBitrate) \o "k">>
             ELSE <<>>)
         \o <<"-c:a", "aac">>
         \o <<"-b:a", IF options.AudioBitrate > 0
                      THEN Itoa(options.AudioBitrate) \o "k"
                      ELSE "128k">>
         \o (IF Len(options.Filters) > 0 /\ buildVideoFilters(options.Filters, orders) # ""
             THEN <<"-vf", buildVideoFilters(options.Filters, orders)>>
             ELSE <<>>)

\* One call of buildRenderArgs on the options.
BuildRenderArgs(orders) ==
    /\ Len(compiled) < MaxCompilations
    /\ compiled' = Append(compiled, buildRenderArgs(Options(optionsGiven), orders))
    /\ UNCHANGED optionsGiven

InitCompile ==
    /\ QueueIdle /\ PrioIdle /\ ConsumeIdle /\ RenderIdle /\ SelectIdle /\ TimelineIdle /\ ProgressIdle
    /\ optionsGiven \in OptionsSupplied
    /\ compiled = <<>>

NextCompile ==
    \E orders \in FilterKeyOrders(optionsGiven.Filters) :
        BuildRenderArgs(orders) /\ UNCHANGED <<qvars, pvars, cvars, rvars, svars, tvars, lvars>>

SpecCompile == InitCompile /\ [][NextCompile]_vars

\* The values that follow the flag in an argument list.
ValuesOf(args, flag) == {args[k + 1] : k \in {i \in 1..(Len(args) - 1) : args[i] = flag}}

\* C19 (as claimed): the -crf value of the compiled arguments is the explicit
\* CRF for every explicitly supplied CRF value, whatever the quality tier;
\* with no CRF supplied it is 28 for "low", 23 for "medium", 18 for "high",
\* 15 for "ultra" and 23 for any other tier.
C19_ExplicitCRFOverridesTier ==
    \A n \in 1..Len(compiled) :
        ValuesOf(compiled[n], "-crf") =
            {IF ~optionsGiven.nil /\ optionsGiven.CRF # Unset
             THEN ToString(optionsGiven.CRF)
             ELSE CASE optionsGiven.Quality = "low" -> "28"
                    [] optionsGiven.Quality = "medium" -> "23"
                    [] optionsGiven.Quality = "high" -> "18"
                    [] optionsGiven.Quality = "ultra" -> "15"
                    [] OTHER -> "23"}

\* C20 (as claimed): any two compilations of the same RenderOptions produce
\* the identical argument list, element for element.
C20_CompilationDeterministic ==
    \A n, m \in 1..Len(compiled) : compiled[n] = compiled[m]

\* The positions of the flag in an argument list.
PositionsOf(args, flag) == {i \in 1..Len(args) : args[i] = flag}

\* C21 (as claimed): for every RenderOptions, the nil one included, the
\* arguments contain the fixed video codec, exactly one preset ("medium" when
\* none is given), exactly one -crf value, and the fixed audio codec with an
\* audio bitrate (128k when none is given).
C21_ArgsFullySpecified ==
    \A n \in 1..Len(compiled) :
        /\ ValuesOf(compiled[n], "-c:v") = {"libx264"}
        /\ Cardinality(PositionsOf(compiled[n], "-preset")) = 1
        /\ ValuesOf(compiled[n], "-preset") =
              {IF optionsGiven.Preset # "" THEN optionsGiven.Preset ELSE "medium"}
        /\ Cardinality(PositionsOf(compiled[n], "-crf")) = 1
        /\ Cardinality(ValuesOf(compiled[n], "-crf")) = 1
        /\ ValuesOf(compiled[n], "-c:a") = {"aac"}
        /\ Cardinality(PositionsOf(compiled[n], "-b:a")) = 1
        /\ ValuesOf(compiled[n], "-b:a") =
              {IF optionsGiven.AudioBitrate > 0
               THEN ToString(optionsGiven.AudioBitrate) \o "k"
               ELSE "128k"}

FiltersOfKind(kinds) == {k \in 1..Len(filterComplex) : filterComplex[k].kind \in kinds}

\* The labels that are inputs of the concatenation filters of the graph.
ConcatInputs ==
    UNION {{filterComplex[k].inputs[m] : m \in 1..Len(filterComplex[k].inputs)} :
              k \in FiltersOfKind({"concat"})}

\* C22 (as claimed): for a composition with N > 1 selected clips the filter
\* graph has 2N trim filters (one video, one audio per clip) and exactly one
\* concatenation filter, and every label a trim filter produces ([v0]..[vN-1]
\* and [a0]..[aN-1]) is an input of that concatenation filter; for N = 1 no
\* concatenation filter is emitted.
C22_ConcatJoinsAllTrimmedStreams ==
    rpc # "call" =>
        /\ Len(compClips) > 1 =>
              /\ Cardinality(FiltersOfKind({"trim"})) = Len(compClips)
              /\ Cardinality(FiltersOfKind({"atrim"})) = Len(compClips)
              /\ Cardinality(FiltersOfKind({"concat"})) = 1
              /\ \A k \in FiltersOfKind({"trim", "atrim"}) :
                    filterComplex[k].output \in ConcatInputs
        /\ Len(compClips) = 1 => FiltersOfKind({"concat"}) = {}

\* C30 (as claimed): the number of "-i" inputs equals the number of selected
\* clips, and the input index of the i-th trim filters ([i:v], [i:a])
\* designates the input file of the i-th selected clip, also when a clip ID
\* occurs in more than one segment.
C30_InputIndexDesignatesClip ==
    rpc # "call" =>
        /\ Len(cmdInputs) = Len(compClips)
        /\ \A k \in FiltersOfKind({"trim", "atrim"}) :
              /\ filterComplex[k].input + 1 \in 1..Len(cmdInputs)
              /\ cmdInputs[filterComplex[k].input + 1] =
                    ClipPath(compClips[filterComplex[k].segment])

\* ---------------------------------------------------------------------
\* Render executor: parseProgress. A Go string is the sequence of its
\* characters; a float64 is carried in hundredths.

Digits == <<"0", "1", "2", "3", "4", "5", "6", "7", "8", "9">>

IsDigit(c) == \E d \in 1..10 : Digits[d] = c

DigitValue(c) == (CHOOSE d \in 1..10 : Digits[d] = c) - 1

\* The position of the first c in s, 0 when there is none.
IndexOf(s, c) ==
    IF \E i \in 1..Len(s) : s[i] = c
    THEN CHOOSE i \in 1..Len(s) : s[i] = c /\ \A j \in 1..(i - 1) : s[j] # c
    ELSE 0

\* strings.HasPrefix
HasPrefix(s, prefix) ==
    Len(s) >= Len(prefix) /\ SubSeq(s, 1, Len(prefix)) = prefix

\* strings.TrimPrefix
TrimPrefix(s, prefix) ==
    IF HasPrefix(s, prefix) THEN SubSeq(s, Len(prefix) + 1, Len(s)) ELSE s

\* strings.TrimSuffix
TrimSuffix(s, suffix) ==
    IF Len(s) >= Len(suffix) /\ SubSeq(s, Len(s) - Len(suffix) + 1, Len(s)) = suffix
    THEN SubSeq(s, 1, Len(s) - Len(suffix))
    ELSE s

RECURSIVE Fields(_)
\* strings.Fields: the maximal runs of characters that are not white space.
Fields(s) ==
    IF s = <<>> THEN <<>>
    ELSE IF s[1] = " " THEN Fields(Tail(s))
    ELSE LET space == IndexOf(s, " ")
         IN  IF space = 0 THEN <<s>>
             ELSE <<SubSeq(s, 1, space - 1)>> \o Fields(SubSeq(s, space, Len(s)))

RECURSIVE Split(_, _)
\* strings.Split with a separator of one character.
Split(s, sep) ==
    LET at == IndexOf(s, sep)
    IN  IF at = 0 THEN <<s>>
        ELSE <<SubSeq(s, 1, at - 1)>> \o Split(SubSeq(s, at + 1, Len(s)), sep)

\* The digits of a number without its sign, and the sign.
Unsigned(s) == IF s # <<>> /\ s[1] \in {"+", "-"} THEN Tail(s) ELSE s

Sign(s) == IF s # <<>> /\ s[1] = "-" THEN -1 ELSE 1

AllDigits(s) == \A i \in 1..Len(s) : IsDigit(s[i])

RECURSIVE DecimalValue(_)
DecimalValue(s) ==
    IF s = <<>> THEN 0
    ELSE DecimalValue(SubSeq(s, 1, Len(s) - 1)) * 10 + DigitValue(s[Len(s)])

\* strconv.Atoi: the value and whether it returned an error (value 0 then).
Atoi(s) ==
    IF Unsigned(s) # <<>> /\ AllDigits(Unsigned(s))
    THEN [err |-> FALSE, value |-> Sign(s) * DecimalValue(Unsigned(s))]
    ELSE [err |-> TRUE, value |-> 0]

\* strconv.ParseFloat(s, 64) of a decimal number without exponent, in
\* hundredths (further fractional digits are dropped); an error and 0 for
\* anything that is not a number.
ParseFloat(s) ==
    LET u == Unsigned(s)
        dot == IndexOf(u, ".")
        whole == IF dot = 0 THEN u ELSE SubSeq(u, 1, dot - 1)
        frac == IF dot = 0 THEN <<>> ELSE SubSeq(u, dot + 1, Len(u))
        hundredths == IF Len(frac) = 0 THEN 0
                      ELSE IF Len(frac) = 1 THEN DigitValue(frac[1]) * 10
                      ELSE DecimalValue(SubSeq(frac, 1, 2))
    IN  IF (whole \o frac) # <<>> /\ AllDigits(whole) /\ AllDigits(frac)
        THEN [err |-> FALSE, value |-> Sign(s) * (DecimalValue(whole) * 100 + hundredths)]
        ELSE [err |-> TRUE, value |-> 0]

\* parseTime: "HH:MM:SS.MS" in hundredths of a second, 0 unless the string
\* has three parts; the errors of Atoi and ParseFloat are dropped.
parseTime(timeStr) ==
    LET parts == Split(timeStr, ":")
    IN  IF Len(parts) # 3 THEN 0
        ELSE (Atoi(parts[1]).value * 3600 + Atoi(parts[2]).value * 60) * 100
             + ParseFloat(parts[3]).value

\* &RenderProgress{}: Progress is the fraction num / den.
ZeroProgress ==
    [nil |-> FALSE, Frame |-> 0, FPS |-> 0, Bitrate |-> <<>>, TotalSize |-> 0,
     Time |-> <<>>, Speed |-> 0, Progress |-> [num |-> 0, den |-> 1]]

FramePrefix == <<"f", "r", "a", "m", "e", "=">>
FpsPrefix == <<"f", "p", "s", "=">>
TimePrefix == <<"t", "i", "m", "e", "=">>
SpeedPrefix == <<"s", "p", "e", "e", "d", "=">>
SizePrefix == <<"s", "i", "z", "e", "=">>

\* parseProgress, the body of "for _, part := range parts".
ParsePart(p, part, total) ==
    IF HasPrefix(part, FramePrefix)
    THEN LET frame == Atoi(TrimPrefix(part, FramePrefix))
         IN  IF frame.err THEN p ELSE [p EXCEPT !.Frame = frame.value]
    ELSE IF HasPrefix(part, FpsPrefix)
    THEN LET fps == ParseFloat(TrimPrefix(part, FpsPrefix))
         IN  IF fps.err THEN p ELSE [p EXCEPT !.FPS = fps.value]
    ELSE IF HasPrefix(part, TimePrefix)
    THEN LET timeStr == TrimPrefix(part, TimePrefix)
             duration == parseTime(timeStr)
         IN  IF duration > 0
             THEN [p EXCEPT !.Time = timeStr,
                            !.Progress = IF total > 0
                                         THEN [num |-> duration * 100, den |-> total]
                                         ELSE @]
             ELSE p
    ELSE IF HasPrefix(part, SpeedPrefix)
    THEN LET speed == ParseFloat(TrimSuffix(TrimPrefix(part, SpeedPrefix), <<"x">>))
         IN  IF speed.err THEN p ELSE [p EXCEPT !.Speed = speed.value]
    ELSE IF HasPrefix(part, SizePrefix)
    THEN [p EXCEPT !.Bitrate = TrimPrefix(part, SizePrefix)]
    ELSE p

RECURSIVE ParseParts(_, _, _)
ParseParts(p, parts, total) ==
    IF parts = <<>> THEN p
    ELSE ParseParts(ParsePart(p, parts[1], total), Tail(parts), total)

\* parseProgress(line, totalDuration)
parseProgress(ln, total) == ParseParts(ZeroProgress, Fields(ln), total)

\* Bound: blanks between "=" and a right-aligned value of the encoder's line.
MaxPad == 2

RECURSIVE FormatInt(_)
\* %d of a natural number.
FormatInt(n) ==
    IF n < 10 THEN <<Digits[n + 1]>>
    ELSE FormatInt(n \div 10) \o <<Digits[(n % 10) + 1]>>

\* %02d
FormatInt2(n) == <<Digits[((n \div 10) % 10) + 1], Digits[(n % 10) + 1]>>

\* %.2f of a value in hundredths.
FormatHundredths(h) == FormatInt(h \div 100) \o <<".">> \o FormatInt2(h % 100)

\* HH:MM:SS.ms of a time in hundredths of a second.
FormatTime(t) ==
    FormatInt2(t \div 360000) \o <<":">> \o FormatInt2((t \div 6000) % 60) \o <<":">>
    \o FormatInt2((t \div 100) % 60) \o <<".">> \o FormatInt2(t % 100)

Blanks(n) == [i \in 1..n |-> " "]

\* What the encoder may report in one line: frame count, fps, elapsed
\* time, speed; whether the line also carries the keys q, size and bitrate;
\* and the blanks that right-align its numbers.
Reports ==
    [frame : {7, 120}, fps : {2400, 2997}, time : {0, 500, 512, 6500},
     speed : {100, 150}, others : BOOLEAN, pad : 0..MaxPad]

\* The totalDuration of the calls, in hundredths of a second.
TotalDurations == {-1000, 0, 1000}

\* The progress line of a report, in the format
\* "frame=  123 fps= 25 q=28.0 size=     456kB time=00:00:05.12
\*  bitrate=1234.5kbits/s speed=   1x".
ProgressLine(r) ==
    FramePrefix \o Blanks(r.pad) \o FormatInt(r.frame)
    \o <<" ">> \o FpsPrefix \o Blanks(r.pad) \o FormatHundredths(r.fps)
    \o (IF r.others
        THEN <<" ", "q", "=", "2", "8", ".", "0", " ">> \o SizePrefix \o Blanks(r.pad)
             \o <<"4", "5", "6", "k", "B">>
        ELSE <<>>)
    \o <<" ">> \o TimePrefix \o FormatTime(r.time)
    \o (IF r.others
        THEN <<" ", "b", "i", "t", "r", "a", "t", "e", "=", "1", "2", "3", "4", ".", "5",
               "k", "b", "i", "t", "s", "/", "s">>
        ELSE <<>>)
    \o <<" ">> \o SpeedPrefix \o Blanks(r.pad) \o FormatHundredths(r.speed) \o <<"x">>

\* runWithProgress, the reader goroutine: progress := fp.parseProgress(line,
\* totalDuration).
ParseLine ==
    /\ ppc = "parse"
    /\ progress' = parseProgress(progressLine, totalDuration)
    /\ ppc' = "parsed"
    /\ UNCHANGED <<progressLine, totalDuration, reported>>

InitProgress ==
    /\ QueueIdle /\ PrioIdle /\ ConsumeIdle /\ RenderIdle /\ SelectIdle /\ TimelineIdle
    /\ CompileIdle
    /\ reported \in Reports
    /\ progressLine = ProgressLine(reported)
    /\ totalDuration \in TotalDurations
    /\ progress = NoProgress
    /\ ppc = "parse"

NextProgress == ParseLine /\ UNCHANGED <<qvars, pvars, cvars, rvars, svars, tvars, avars>>

SpecProgress == InitProgress /\ [][NextProgress]_vars

\* C23 (as claimed): parseProgress sets frame, fps and speed to the values
\* the progress line reports (speed without its trailing "x"), whatever other
\* keys the line carries, and sets percent-complete to elapsedSeconds /
\* totalDuration * 100 when totalDuration > 0 and leaves it zero otherwise.
C23_ProgressFieldsFromLine ==
    ppc = "parsed" =>
        /\ progress.Frame = reported.frame
        /\ progress.FPS = reported.fps
        /\ progress.Speed = reported.speed
        /\ IF totalDuration > 0
           THEN progress.Progress.num * totalDuration
                    = reported.time * 100 * progress.Progress.den
           ELSE progress.Progress.num = 0

\* ---------------------------------------------------------------------
\* The job queue: settlement of deliveries, and termination of jobs.

\* msg.Ack(false) of the delivery worker w holds, as the broker sees it.
AckedBy(w) ==
    ackedMsgs' = Add(ackedMsgs, wmsg[w]) /\ dlx' = dlx /\ queues' = queues

\* msg.Nack(false, false) of the delivery worker w holds, as the broker sees it.
NackedBy(w) ==
    dlx' = Add(dlx, wmsg[w]) /\ ackedMsgs' = ackedMsgs /\ queues' = queues

\* The workers that end their loop iteration in this step ("for msg := range
\* msgs" takes the next delivery after it).
EndIteration == {w \in Workers : wpc[w] # "recv" /\ wpc'[w] = "recv"}

\* C25: a worker that returns to the receive of its loop has settled the
\* delivery it held, in that step and in no other step of the iteration: by
\* an ack if and only if the body decoded and the handler returned nil (the
\* worker is at msg.Ack), otherwise by a nack without requeue; the delivery is
\* never both acked and nacked, and a worker waiting for its next delivery
\* holds none.
C25_SettleStep ==
    /\ EndIteration = {} => (ackedMsgs' = ackedMsgs /\ dlx' = dlx)
    /\ \A w \in EndIteration :
          /\ wmsg[w] # NoMsg
          /\ IF UnmarshalOk(wmsg[w].body) /\ wpc[w] = "ack"
             THEN AckedBy(w) /\ ~NackedBy(w)
             ELSE NackedBy(w) /\ ~AckedBy(w)
    /\ \A w \in Workers : wpc[w] = "recv" => wmsg[w] = NoMsg
    /\ BagToSet(ackedMsgs) \cap BagToSet(dlx) = {}

C25_EveryDeliverySettledOnce == [][C25_SettleStep]_vars

\* C25 witness: a delivery was acked, a decoded one and an undecodable one
\* were nacked, and every worker waits for its next delivery.
C25_Witness ==
    /\ ackedMsgs # EmptyBag
    /\ \E m \in BagToSet(dlx) : m.body.valid
    /\ \E m \in BagToSet(dlx) : ~m.body.valid
    /\ \A w \in Workers : wpc[w] = "recv"

\* The steps of worker w when PublishTask succeeds in the retry branch.
WorkerStep(w) ==
    /\ \/ WorkerReceive(w)
       \/ WorkerUnmarshal(w)
       \/ \E ok \in BOOLEAN : HandlerReturn(w, ok)
       \/ WorkerRetry(w, TRUE)
       \/ WorkerNack(w)
       \/ WorkerAck(w)
    /\ UNCHANGED <<pvars, cvars, rvars, svars, tvars, avars, lvars>>

NextQueueReliable ==
    \/ \E j \in JobIds, q \in Queues, ok \in BOOLEAN :
          PublishNewTask(j, q, ok) /\ UNCHANGED <<pvars, cvars, rvars, svars, tvars, avars, lvars>>
    \/ \E w \in Workers : WorkerStep(w)

\* The job queue with well-formed jobs only, handlers that return, worker
\* goroutines that are scheduled fairly and a PublishTask that succeeds in the
\* retry branch.
FairSpecQueue ==
    InitQueue /\ [][NextQueueReliable]_vars /\ \A w \in Workers : WF_vars(WorkerStep(w))

\* A message of job j was acknowledged.
Completed(j) == MsgsOf(j, BagToSet(ackedMsgs)) # {}

\* A message of job j with retry = max_retry was nacked without requeue.
DeadLettered(j) == \E m \in MsgsOf(j, BagToSet(dlx)) : AtMaxRetry(m)

====
